---- MODULE Spec2Model ----
(***************************************************************************)
(* A model of bounded-collections' BoundedVec<T, S>                        *)
(* (src/bounded-collections/src/bounded_vec.rs): an owning vector whose    *)
(* length is bounded by S::get(), its constructors, its mutating           *)
(* operations and its SCALE codec.                                         *)
(*                                                                         *)
(* Indices are Rust's (0-based); sequences are TLA+'s (1-based), so the    *)
(* element at Rust position p of v is v[p + 1].                            *)
(***************************************************************************)
EXTENDS Integers, Sequences, FiniteSets, TLC

VARIABLES
    S,      \* the value of S::get(), the bound of the type
    vec,    \* self.0, the storage of the BoundedVec the caller holds
    live,   \* TRUE while the caller holds a BoundedVec (FALSE after a failed
            \* constructor, or after a consuming call gave none back)
    last    \* the last call: its name, arguments, self.0 before it, and result

vars == <<S, vec, live, last>>

(***************************************************************************)
(* Bounds of the model.                                                    *)
(***************************************************************************)
MaxBound == 3

\* The element type T is u16; the values the model stores.
Elems == {1, 258}

\* usize::MAX, by the largest integer TLC represents.
UsizeMax == 2147483647

Min(a, b) == IF a < b THEN a ELSE b

SeqsUpTo(n) == UNION {[1..k -> Elems] : k \in 0..n}

\* Vec<T> values handed to the constructors: up to one longer than any bound.
Inputs == SeqsUpTo(MaxBound + 1)

\* The elements handed to try_extend and try_append.
Items == SeqsUpTo(2)

\* usize arguments: every position of a longest vector, one past it, beyond
\* every bound, and usize::MAX.
Indices == (0..(MaxBound + 1)) \cup {UsizeMax}

(***************************************************************************)
(* The result of a call: the storage it leaves, whether the caller still   *)
(* holds a BoundedVec, the returned variant, and the returned payload.     *)
(***************************************************************************)
R(v, ret, out) == [self |-> v, live |-> TRUE, ret |-> ret, out |-> out]

\* The call consumed or never built the BoundedVec.
Gone(ret, out) == [self |-> <<>>, live |-> FALSE, ret |-> ret, out |-> out]

\* A panic of the standard library's bounds checks, raised before any write.
Panic(v) == [self |-> v, live |-> TRUE, ret |-> "Panic", out |-> <<>>]

\* An addition on usize whose result does not fit.
Overflow(v) == [self |-> v, live |-> TRUE, ret |-> "Overflow", out |-> <<>>]

(***************************************************************************)
(* Vec<T> and [T] of the standard library, as the code calls them.         *)
(***************************************************************************)
vec_insert(v, index, element) ==
    SubSeq(v, 1, index) \o <<element>> \o SubSeq(v, index + 1, Len(v))

vec_truncate(v, len) == IF len >= Len(v) THEN v ELSE SubSeq(v, 1, len)

vec_resize(v, size, value) ==
    IF size <= Len(v) THEN SubSeq(v, 1, size)
    ELSE v \o [i \in 1..(size - Len(v)) |-> value]

\* [T]::rotate_left(mid) on a whole slice: mid <= len.
rotate_left(s, mid) == SubSeq(s, mid + 1, Len(s)) \o SubSeq(s, 1, mid)

\* [T]::rotate_right(k) on a whole slice: k <= len.
rotate_right(s, k) == SubSeq(s, Len(s) - k + 1, Len(s)) \o SubSeq(s, 1, Len(s) - k)

\* v with its sub-slice v[from..to] replaced by s (of the same length).
splice(v, from, to, s) == SubSeq(v, 1, from) \o s \o SubSeq(v, to + 1, Len(v))

\* bound(): S::get() as usize.
bound == S

is_full(v) == Len(v) >= bound

(***************************************************************************)
(* The operations of BoundedVec, each as the code computes it.             *)
(***************************************************************************)
\* force_insert_keep_right without the rotation: the element stays in front.
force_insert_keep_right_no_rotate(v, index, element) ==
    IF bound < index \/ Len(v) < index THEN R(v, "Err", <<element>>)
    ELSE IF Len(v) < bound THEN R(vec_insert(v, index, element), "OkNone", <<>>)
    ELSE IF index = 0 THEN R(v, "Err", <<element>>)
    ELSE R([v EXCEPT ![1] = element], "OkSome", <<v[1]>>)

\* force_insert_keep_right rotating the whole vector, not self[0..index].
force_insert_keep_right_rotate_all(v, index, element) ==
    IF bound < index \/ Len(v) < index THEN R(v, "Err", <<element>>)
    ELSE IF Len(v) < bound THEN R(vec_insert(v, index, element), "OkNone", <<>>)
    ELSE IF index = 0 THEN R(v, "Err", <<element>>)
    ELSE R(rotate_left([v EXCEPT ![1] = element], 1), "OkSome", <<v[1]>>)


\* force_insert_keep_right without the index == 0 check on a full vector:
\* self[0..0].rotate_left(1) panics after the swap.
force_insert_keep_right_no_zero_check(v, index, element) ==
    IF bound < index \/ Len(v) < index THEN R(v, "Err", <<element>>)
    ELSE IF Len(v) < bound THEN R(vec_insert(v, index, element), "OkNone", <<>>)
    ELSE IF Len(v) = 0 \/ index > Len(v) THEN Panic(v)
    ELSE LET swapped == [v EXCEPT ![1] = element] IN
         IF index = 0 THEN Panic(swapped)
         ELSE R(splice(swapped, 0, index, rotate_left(SubSeq(swapped, 1, index), 1)),
                "OkSome", <<v[1]>>)


force_insert_keep_right(v, index, element) ==
    IF bound < index \/ Len(v) < index THEN R(v, "Err", <<element>>)
    ELSE IF Len(v) < bound THEN R(vec_insert(v, index, element), "OkNone", <<>>)
    ELSE IF index = 0 THEN R(v, "Err", <<element>>)
    \* self[0] and self[0..index]: the bounds checks of the indexing.
    ELSE IF Len(v) = 0 \/ index > Len(v) THEN Panic(v)
    ELSE LET swapped == [v EXCEPT ![1] = element]
             rotated == rotate_left(SubSeq(swapped, 1, index), 1)
         IN  R(splice(swapped, 0, index, rotated), "OkSome", <<v[1]>>)

\* force_insert_keep_left that never makes room.
force_insert_keep_left_no_pop(v, index, element) ==
    IF bound < index \/ Len(v) < index \/ bound = 0 THEN R(v, "Err", <<element>>)
    ELSE IF bound = index /\ Len(v) <= bound THEN R(v, "Err", <<element>>)
    ELSE R(vec_insert(v, index, element), "OkNone", <<>>)


\* force_insert_keep_left making room at the front, as keep_right does.
force_insert_keep_left_evicts_first(v, index, element) ==
    IF bound < index \/ Len(v) < index \/ bound = 0 THEN R(v, "Err", <<element>>)
    ELSE IF bound = index /\ Len(v) <= bound THEN R(v, "Err", <<element>>)
    ELSE IF is_full(v)
    THEN R(vec_insert(SubSeq(v, 2, Len(v)), Min(index, Len(v) - 1), element),
           "OkSome", <<v[1]>>)
    ELSE R(vec_insert(v, index, element), "OkNone", <<>>)


\* force_insert_keep_left without the index == bound no-op check: on a full
\* vector the insert after the pop is out of range.
force_insert_keep_left_no_noop(v, index, element) ==
    IF bound < index \/ Len(v) < index \/ bound = 0 THEN R(v, "Err", <<element>>)
    ELSE LET popped == IF is_full(v) THEN SubSeq(v, 1, Len(v) - 1) ELSE v IN
         IF index > Len(popped) THEN Panic(popped)
         ELSE R(vec_insert(popped, index, element),
                IF is_full(v) THEN "OkSome" ELSE "OkNone",
                IF is_full(v) THEN <<v[Len(v)]>> ELSE <<>>)


force_insert_keep_left(v, index, element) ==
    IF bound < index \/ Len(v) < index \/ bound = 0 THEN R(v, "Err", <<element>>)
    ELSE IF bound = index /\ Len(v) <= bound THEN R(v, "Err", <<element>>)
    ELSE LET full == is_full(v)
             truncated == IF full THEN vec_truncate(v, bound) ELSE v
             popped == IF full /\ Len(truncated) > 0
                       THEN SubSeq(truncated, 1, Len(truncated) - 1)
                       ELSE truncated
             maybe_removed == IF full /\ Len(truncated) > 0
                              THEN <<truncated[Len(truncated)]>>
                              ELSE <<>>
         IN  IF index > Len(popped) THEN Panic(popped)
             ELSE R(vec_insert(popped, index, element),
                    IF maybe_removed = <<>> THEN "OkNone" ELSE "OkSome",
                    maybe_removed)

\* slide rotating the wrong way when it moves an element forward.
slide_forward_wrong_way(v, index, insert_position) ==
    IF Len(v) <= index \/ Len(v) < insert_position \/ index = UsizeMax
    THEN R(v, "false", <<>>)
    ELSE IF index = insert_position \/ index + 1 = insert_position
    THEN R(v, "false", <<>>)
    ELSE IF insert_position < index
    THEN R(splice(v, insert_position, index + 1,
                  rotate_right(SubSeq(v, insert_position + 1, index + 1), 1)),
           "true", <<>>)
    ELSE R(splice(v, index, insert_position,
                  rotate_right(SubSeq(v, index + 1, insert_position), 1)),
           "true", <<>>)

\* slide without the index + 1 == insert_position no-op, the forward branch
\* taking every insert_position > index.
slide_adjacent_moves(v, index, insert_position) ==
    IF Len(v) <= index \/ Len(v) < insert_position \/ index = UsizeMax
    THEN R(v, "false", <<>>)
    ELSE IF index = insert_position
    THEN R(v, "false", <<>>)
    ELSE IF insert_position < index
    THEN R(splice(v, insert_position, index + 1,
                  rotate_right(SubSeq(v, insert_position + 1, index + 1), 1)),
           "true", <<>>)
    ELSE R(splice(v, index, insert_position,
                  rotate_left(SubSeq(v, index + 1, insert_position), 1)),
           "true", <<>>)

\* slide rotating self[insert_position..index], one short, when it moves an
\* element backward.
slide_backward_short(v, index, insert_position) ==
    IF Len(v) <= index \/ Len(v) < insert_position \/ index = UsizeMax
    THEN R(v, "false", <<>>)
    ELSE IF index = insert_position \/ index + 1 = insert_position
    THEN R(v, "false", <<>>)
    ELSE IF insert_position < index
    THEN R(splice(v, insert_position, index,
                  rotate_right(SubSeq(v, insert_position + 1, index), 1)),
           "true", <<>>)
    ELSE R(splice(v, index, insert_position,
                  rotate_left(SubSeq(v, index + 1, insert_position), 1)),
           "true", <<>>)


\* slide without its first test, the check against panics.
slide_unchecked(v, index, insert_position) ==
    IF index = UsizeMax THEN Overflow(v)
    ELSE IF index = insert_position \/ index + 1 = insert_position
    THEN R(v, "false", <<>>)
    ELSE IF insert_position < index /\ index < Len(v)
    THEN R(splice(v, insert_position, index + 1,
                  rotate_right(SubSeq(v, insert_position + 1, index + 1), 1)),
           "true", <<>>)
    ELSE IF insert_position > 0 /\ index + 1 < insert_position
    THEN IF insert_position > Len(v) THEN Panic(v)
         ELSE R(splice(v, index, insert_position,
                       rotate_left(SubSeq(v, index + 1, insert_position), 1)),
                "true", <<>>)
    ELSE R(v, "debug_assert", <<>>)


\* slide whose forward branch asks for a gap of two.
slide_forward_gap(v, index, insert_position) ==
    IF Len(v) <= index \/ Len(v) < insert_position \/ index = UsizeMax
    THEN R(v, "false", <<>>)
    ELSE IF index = insert_position \/ index + 1 = insert_position
    THEN R(v, "false", <<>>)
    ELSE IF insert_position < index /\ index < Len(v)
    THEN R(splice(v, insert_position, index + 1,
                  rotate_right(SubSeq(v, insert_position + 1, index + 1), 1)),
           "true", <<>>)
    ELSE IF insert_position > 0 /\ index + 2 < insert_position
    THEN R(splice(v, index, insert_position,
                  rotate_left(SubSeq(v, index + 1, insert_position), 1)),
           "true", <<>>)
    ELSE R(v, "debug_assert", <<>>)


slide(v, index, insert_position) ==
    IF Len(v) <= index \/ Len(v) < insert_position \/ index = UsizeMax
    THEN R(v, "false", <<>>)
    \* index + 1, here and below.
    ELSE IF index = UsizeMax THEN Overflow(v)
    ELSE IF index = insert_position \/ index + 1 = insert_position
    THEN R(v, "false", <<>>)
    ELSE IF insert_position < index /\ index < Len(v)
    THEN IF index + 1 > Len(v) THEN Panic(v)
         ELSE R(splice(v, insert_position, index + 1,
                       rotate_right(SubSeq(v, insert_position + 1, index + 1), 1)),
                "true", <<>>)
    ELSE IF insert_position > 0 /\ index + 1 < insert_position
    THEN IF insert_position > Len(v) THEN Panic(v)
         ELSE R(splice(v, index, insert_position,
                       rotate_left(SubSeq(v, index + 1, insert_position), 1)),
                "true", <<>>)
    \* debug_assert!(false, ...): every no-op should have returned above.
    ELSE R(v, "debug_assert", <<>>)

\* force_push truncating to the bound instead of the bound less one.
force_push_no_room(v, element) ==
    IF bound > 0 THEN R(Append(vec_truncate(v, bound), element), "unit", <<>>)
    ELSE R(v, "unit", <<>>)


force_push(v, element) ==
    IF bound > 0 THEN R(Append(vec_truncate(v, bound - 1), element), "unit", <<>>)
    ELSE R(v, "unit", <<>>)

\* bounded_resize clamping one past the bound.
bounded_resize_past_bound(v, size, value) ==
    R(vec_resize(v, Min(size, bound + 1), value), "unit", <<>>)


bounded_resize(v, size, value) ==
    R(vec_resize(v, Min(size, bound), value), "unit", <<>>)

\* usize::saturating_add.
saturating_add(a, b) == IF a > UsizeMax - b THEN UsizeMax ELSE a + b

\* try_extend refusing to fill the vector exactly (< for <=).
try_extend_strict(v, with) ==
    IF saturating_add(Len(with), Len(v)) < bound THEN R(v \o with, "Ok", <<>>)
    ELSE R(v, "Err", <<>>)

\* `with` is taken by value and Err(()) carries nothing back.
try_extend(v, with) ==
    IF saturating_add(Len(with), Len(v)) <= bound THEN R(v \o with, "Ok", <<>>)
    ELSE R(v, "Err", <<>>)

\* try_extend with an ExactSizeIterator known by the length it reports, one
\* too long to be held in memory (such as (0..usize::MAX).map(f)): past the
\* test, Vec::extend cannot reserve for it and panics (capacity overflow).
try_extend_sized(v, with_len) ==
    IF saturating_add(with_len, Len(v)) <= bound THEN Panic(v)
    ELSE R(v, "Err", <<>>)

\* try_append emptying `other` before it checks the bound.
try_append_takes(v, other) ==
    IF saturating_add(Len(other), Len(v)) <= bound THEN R(v \o other, "Ok", <<>>)
    ELSE R(v, "Err", <<>>)

\* `other` is borrowed: the payload is what it holds after the call.
try_append(v, other) ==
    IF saturating_add(Len(other), Len(v)) <= bound THEN R(v \o other, "Ok", <<>>)
    ELSE R(v, "Err", other)

\* try_insert that pushes, whatever the index.
try_insert_appends(v, index, element) ==
    IF Len(v) < bound
    THEN IF index > Len(v) THEN Panic(v)
         ELSE R(Append(v, element), "Ok", <<>>)
    ELSE R(v, "Err", <<element>>)


try_insert(v, index, element) ==
    IF Len(v) < bound
    THEN IF index > Len(v) THEN Panic(v)
         ELSE R(vec_insert(v, index, element), "Ok", <<>>)
    ELSE R(v, "Err", <<element>>)

\* try_push letting a full vector grow (<= for <).
try_push_off_by_one(v, element) ==
    IF Len(v) <= bound THEN R(Append(v, element), "Ok", <<>>)
    ELSE R(v, "Err", <<element>>)


try_push(v, element) ==
    IF Len(v) < bound THEN R(Append(v, element), "Ok", <<>>)
    ELSE R(v, "Err", <<element>>)

\* try_rotate_left turning the wrong way.
try_rotate_left_turns_right(v, mid) ==
    IF mid > Len(v) THEN R(v, "Err", <<>>) ELSE R(rotate_right(v, mid), "Ok", <<>>)


try_rotate_left(v, mid) ==
    IF mid > Len(v) THEN R(v, "Err", <<>>) ELSE R(rotate_left(v, mid), "Ok", <<>>)

try_rotate_right(v, mid) ==
    IF mid > Len(v) THEN R(v, "Err", <<>>) ELSE R(rotate_right(v, mid), "Ok", <<>>)

\* try_mutate checking the length it had before the closure ran.
try_mutate_checks_before(v, mutated) ==
    IF Len(v) <= bound THEN R(mutated, "Some", <<>>) ELSE Gone("None", <<>>)

\* The closure leaves `mutated` in self.0; the check comes after it ran.
try_mutate(v, mutated) ==
    IF Len(mutated) <= bound THEN R(mutated, "Some", <<>>) ELSE Gone("None", <<>>)

(***************************************************************************)
(* The operations that pass straight to Vec<T>.                            *)
(***************************************************************************)
clear(v) == R(<<>>, "unit", <<>>)

\* remove filling the hole with the last element.
remove_by_swap(v, index) ==
    IF index >= Len(v) THEN Panic(v)
    ELSE R(SubSeq([v EXCEPT ![index + 1] = v[Len(v)]], 1, Len(v) - 1),
           "value", <<v[index + 1]>>)

\* Vec::remove: panics when index >= len; returns the removed element.
remove(v, index) ==
    IF index >= Len(v) THEN Panic(v)
    ELSE R(SubSeq(v, 1, index) \o SubSeq(v, index + 2, Len(v)), "value", <<v[index + 1]>>)

\* Vec::swap_remove: the last element takes the place of the removed one.
swap_remove(v, index) ==
    IF index >= Len(v) THEN Panic(v)
    ELSE R(SubSeq([v EXCEPT ![index + 1] = v[Len(v)]], 1, Len(v) - 1),
           "value", <<v[index + 1]>>)

\* The elements of `keep` in ascending order, to record the predicate.
KeepList(keep) == SelectSeq(<<1, 258>>, LAMBDA x : x \in keep)

\* Vec::retain with the predicate "the element is in keep".
retain(v, keep) == R(SelectSeq(v, LAMBDA x : x \in keep), "unit", <<>>)

truncate(v, s) == R(vec_truncate(v, s), "unit", <<>>)

pop(v) ==
    IF Len(v) = 0 THEN R(v, "None", <<>>)
    ELSE R(SubSeq(v, 1, Len(v) - 1), "Some", <<v[Len(v)]>>)

\* Vec::drain(start..end), the Drain dropped: panics when start > end or
\* end > len; returns the drained elements.
drain(v, start, end) ==
    IF start > end \/ end > Len(v) THEN Panic(v)
    ELSE R(SubSeq(v, 1, start) \o SubSeq(v, end + 1, Len(v)),
           "Drain", SubSeq(v, start + 1, end))

sort(v) == R(SortSeq(v, LAMBDA x, y : x < y), "unit", <<>>)

\* sort_by with the reversed comparison.
sort_by(v) == R(SortSeq(v, LAMBDA x, y : x > y), "unit", <<>>)

\* sort_by_key with the key "the low byte of the element".
sort_by_key(v) == R(SortSeq(v, LAMBDA x, y : (x % 256) < (y % 256)), "unit", <<>>)

into_inner(v) == Gone("Vec", v)

(***************************************************************************)
(* Constructors and conversions.                                           *)
(***************************************************************************)
new == R(<<>>, "Ok", <<>>)

unchecked_from(t) == R(t, "Ok", <<>>)

default == unchecked_from(<<>>)

\* The capacity the call reserves.
with_bounded_capacity_reserved(capacity) == Min(capacity, bound)

with_bounded_capacity(capacity) == R(<<>>, "Ok", <<>>)

\* truncate_from that forgets to truncate.
truncate_from_unchecked(v) == unchecked_from(v)


truncate_from(v) == unchecked_from(vec_truncate(v, bound))

try_from(t) == IF Len(t) <= bound THEN unchecked_from(t) ELSE Gone("Err", t)

\* An ExactSizeIterator that yields the elements of `iter` and reports
\* their number.
try_collect(iter) ==
    IF Len(iter) > bound THEN Gone("iterator length too big", <<>>)
    ELSE unchecked_from(iter)

\* Collecting before the length is looked at.
try_collect_taken_eager(iter) == Len(iter)

\* How many elements try_collect takes from the iterator: self.collect()
\* drains it, and runs only in the else branch.
try_collect_taken(iter) == IF Len(iter) > bound THEN 0 ELSE Len(iter)

(***************************************************************************)
(* serde: Deserialize for BoundedVec.  A SeqAccess is the array being read *)
(* (the elements next_element will yield, in order) and the size hint it   *)
(* reports: None, or Some(number of elements remaining).                   *)
(***************************************************************************)
None == <<>>

Some(n) == <<n>>

unwrap_or(opt, d) == IF opt = None THEN d ELSE opt[1]

\* The result of visit_seq: the error ("" for Ok), the Vec built, and the
\* capacity asked of Vec::with_capacity (0 when none was made).
Visited(err, values, reserved) == [err |-> err, values |-> values, reserved |-> reserved]

\* The while-let loop of visit_seq over the elements left in seq.
RECURSIVE next_elements(_, _, _, _)
next_elements(values, seq, max, size) ==
    IF seq = <<>> THEN Visited("", values, size)
    ELSE IF Len(values) >= max THEN Visited("out of bounds", <<>>, size)
    ELSE next_elements(Append(values, Head(seq)), Tail(seq), max, size)

\* A loop that stops reading once the Vec is full.
RECURSIVE next_elements_until_full(_, _, _, _)
next_elements_until_full(values, seq, max, size) ==
    IF seq = <<>> \/ Len(values) >= max THEN Visited("", values, size)
    ELSE next_elements_until_full(Append(values, Head(seq)), Tail(seq), max, size)

\* visit_seq that truncates silently.
visit_seq_truncates(seq, size_hint) ==
    LET size == unwrap_or(size_hint, 0)
        max == S
    IN  IF size > max THEN Visited("", SubSeq(seq, 1, max), 0)
        ELSE next_elements_until_full(<<>>, seq, max, size)

\* visit_seq that reserves before it looks at the hint.
visit_seq_reserves_first(seq, size_hint) ==
    LET size == unwrap_or(size_hint, 0)
        max == S
    IN  IF size > max THEN Visited("out of bounds", <<>>, size)
        ELSE next_elements(<<>>, seq, max, size)

\* VecVisitor::visit_seq.  S::get() is a u32 and always converts to usize.
visit_seq(seq, size_hint) ==
    LET size == unwrap_or(size_hint, 0)
        max == S
    IN  IF size > max THEN Visited("out of bounds", <<>>, 0)
        ELSE next_elements(<<>>, seq, max, size)

\* <BoundedVec<T, S> as Deserialize>::deserialize.
deserialize(seq, size_hint) ==
    LET v == visit_seq(seq, size_hint) IN
    IF v.err # "" THEN Gone(v.err, <<>>)
    ELSE LET r == try_from(v.values) IN
         IF r.ret = "Err" THEN Gone("out of bounds", <<>>) ELSE r

\* The capacity deserialize reserves.
deserialize_reserved(seq, size_hint) == visit_seq(seq, size_hint).reserved

(***************************************************************************)
(* BoundedSlice<'a, T, S>, the borrowed view.  Building one from a slice   *)
(* involves no BoundedVec: the payload of the result is the data the view  *)
(* shows, or the slice handed back in Err.                                 *)
(***************************************************************************)
BoundedSlice(t) == [self |-> <<>>, live |-> FALSE, ret |-> "Ok", out |-> t]

\* TryFrom<&[T]> for BoundedSlice letting one element too many in.
slice_try_from_off_by_one(t) ==
    IF Len(t) <= S + 1 THEN BoundedSlice(t) ELSE Gone("Err", t)

\* TryFrom<&'a [T]> for BoundedSlice.
slice_try_from(t) ==
    IF Len(t) <= S THEN BoundedSlice(t) ELSE Gone("Err", t)

\* BoundedSlice::truncate_from that keeps the whole slice.
slice_truncate_from_whole(s) == BoundedSlice(s)

\* BoundedSlice::truncate_from: &s[0..min(len, bound)].
slice_truncate_from(s) == BoundedSlice(SubSeq(s, 1, Min(Len(s), S)))

\* as_bounded_slice: a view of the whole of self.0.
as_bounded_slice(v) == BoundedSlice(SubSeq(v, 1, Len(v)))

(***************************************************************************)
(* Comparisons.  A compared value is its elements `v` (the field .0) and   *)
(* the bound type `S` it is tagged with ("" for a plain Vec).              *)
(***************************************************************************)
Tagged(v, tag) == [v |-> v, S |-> tag]

\* [T]::partial_cmp / [T]::cmp of the standard library on u16 elements.
RECURSIVE slice_cmp(_, _)
slice_cmp(a, b) ==
    IF a = <<>> THEN (IF b = <<>> THEN "Equal" ELSE "Less")
    ELSE IF b = <<>> THEN "Greater"
    ELSE IF Head(a) < Head(b) THEN "Less"
    ELSE IF Head(a) > Head(b) THEN "Greater"
    ELSE slice_cmp(Tail(a), Tail(b))

\* An equality that also compares the bound types.
eq_with_tag(self, rhs) == self.v = rhs.v /\ self.S = rhs.S

\* PartialEq for BoundedVec / BoundedSlice against BoundedVec, BoundedSlice
\* and Vec: self.0 == rhs.0.
eq(self, rhs) == self.v = rhs.v

\* PartialOrd (and Ord) for BoundedVec / BoundedSlice.
partial_cmp(self, other) == slice_cmp(self.v, other.v)

(***************************************************************************)
(* The SCALE wire format: Compact<u32> length prefix, then the elements,   *)
(* each u16 as two little-endian bytes.  Inputs are sequences of bytes.    *)
(***************************************************************************)
\* The outcome of a decode step: the error ("" when none), the value, and
\* the input left.
DecOk(value, rest) == [err |-> "", value |-> value, rest |-> rest]

DecErr(err, rest) == [err |-> err, value |-> 0, rest |-> rest]

EOF == "Not enough data to fill buffer"

U32_OUT_OF_RANGE == "out of range decoding Compact<u32>"

Skip(input, n) == SubSeq(input, n + 1, Len(input))

\* Compact<u32>::encode: one, two, four or five bytes by the size of n.
compact_encode(n) ==
    IF n <= 63 THEN <<n * 4>>
    ELSE IF n <= 16383 THEN <<(n * 4 + 1) % 256, (n * 4 + 1) \div 256>>
    ELSE IF n <= 1073741823
    THEN <<(n % 64) * 4 + 2, (n \div 64) % 256, (n \div 16384) % 256, n \div 4194304>>
    ELSE <<3, n % 256, (n \div 256) % 256, (n \div 65536) % 256, n \div 16777216>>

\* Compact<u32>::decode: the mode is in the two low bits of the first byte;
\* an encoding longer than the value needs is out of range.
compact_decode(input) ==
    IF Len(input) < 1 THEN DecErr(EOF, input)
    ELSE LET prefix == input[1] IN
    CASE prefix % 4 = 0 -> DecOk(prefix \div 4, Skip(input, 1))
      [] prefix % 4 = 1 ->
            IF Len(input) < 2 THEN DecErr(EOF, Skip(input, 1))
            ELSE LET x == (prefix \div 4) + 64 * input[2] IN
                 IF x > 63 /\ x <= 16383 THEN DecOk(x, Skip(input, 2))
                 ELSE DecErr(U32_OUT_OF_RANGE, Skip(input, 2))
      [] prefix % 4 = 2 ->
            IF Len(input) < 4 THEN DecErr(EOF, Skip(input, 1))
            ELSE LET x == (prefix \div 4) + 64 * input[2] + 16384 * input[3]
                           + 4194304 * input[4] IN
                 IF x > 16383 /\ x <= 1073741823 THEN DecOk(x, Skip(input, 4))
                 ELSE DecErr(U32_OUT_OF_RANGE, Skip(input, 4))
      [] OTHER ->
            IF prefix \div 4 # 0 THEN DecErr(U32_OUT_OF_RANGE, Skip(input, 1))
            ELSE IF Len(input) < 5 THEN DecErr(EOF, Skip(input, 1))
            \* values from 2^31 are beyond TLC's integers
            ELSE IF input[5] >= 128 THEN DecErr("unmodelled", Skip(input, 5))
            ELSE LET x == input[2] + 256 * input[3] + 65536 * input[4]
                           + 16777216 * input[5] IN
                 IF x > 1073741823 THEN DecOk(x, Skip(input, 5))
                 ELSE DecErr(U32_OUT_OF_RANGE, Skip(input, 5))

\* u16::encode.
u16_encode(x) == <<x % 256, x \div 256>>

\* The elements of v, encoded one after the other.
RECURSIVE encode_elements(_)
encode_elements(v) ==
    IF v = <<>> THEN <<>> ELSE u16_encode(Head(v)) \o encode_elements(Skip(v, 1))

\* Vec<T>::encode: the compact length, then the elements.
vec_encode(v) == compact_encode(Len(v)) \o encode_elements(v)

\* PhantomData<S>::encode: nothing.
phantom_encode == <<>>

\* derive(Encode) on BoundedVec(Vec<T>, PhantomData<S>): the fields in order.
bounded_vec_encode(v) == vec_encode(v) \o phantom_encode

\* decode_vec_with_len: len elements from the input, which must hold them all.
RECURSIVE decode_elements(_, _)
decode_elements(input, len) ==
    IF len = 0 THEN <<>>
    ELSE <<input[1] + 256 * input[2]>> \o decode_elements(Skip(input, 2), len - 1)

decode_vec_with_len(input, len) ==
    \* len * 2 > remaining, without the product
    IF len > Len(input) \div 2 THEN DecErr("Not enough data to decode vector", input)
    ELSE DecOk(decode_elements(input, len), Skip(input, 2 * len))

\* decode reading the elements first and checking the bound afterwards.
decode_then_check(input) ==
    LET len == compact_decode(input) IN
    IF len.err # "" THEN Gone(len.err, len.rest)
    ELSE LET inner == decode_vec_with_len(len.rest, len.value) IN
         IF inner.err # "" THEN Gone(inner.err, inner.rest)
         ELSE IF len.value > S THEN Gone("BoundedVec exceeds its limit", inner.rest)
         ELSE R(inner.value, "Ok", inner.rest)

\* decode rejecting a vector that fills the bound exactly (>= for >).
decode_strict(input) ==
    LET len == compact_decode(input) IN
    IF len.err # "" THEN Gone(len.err, len.rest)
    ELSE IF len.value >= S THEN Gone("BoundedVec exceeds its limit", len.rest)
    ELSE LET inner == decode_vec_with_len(len.rest, len.value) IN
         IF inner.err # "" THEN Gone(inner.err, inner.rest)
         ELSE R(inner.value, "Ok", inner.rest)

\* <BoundedVec<T, S> as Decode>::decode: the payload is the input left.
decode(input) ==
    LET len == compact_decode(input) IN
    IF len.err # "" THEN Gone(len.err, len.rest)
    ELSE IF len.value > S THEN Gone("BoundedVec exceeds its limit", len.rest)
    ELSE LET inner == decode_vec_with_len(len.rest, len.value) IN
         IF inner.err # "" THEN Gone(inner.err, inner.rest)
         ELSE R(inner.value, "Ok", inner.rest)

\* The length handed to decode_vec_with_len, which allocates for it (0 when
\* the decode stops before).
decode_reserved(input) ==
    LET len == compact_decode(input) IN
    IF len.err # "" \/ len.value > S THEN 0 ELSE len.value

\* <Vec<T> as Decode>::decode, the unbounded decoder.
vec_decode(input) ==
    LET len == compact_decode(input) IN
    IF len.err # "" THEN DecErr(len.err, len.rest)
    ELSE decode_vec_with_len(len.rest, len.value)

(***************************************************************************)
(* The state machine: a caller that owns one BoundedVec at a time.  It     *)
(* calls the operations of the one it holds in any order with any         *)
(* arguments, and builds the next one once it holds none (into_inner, a    *)
(* try_mutate that gave None, a constructor that failed).                  *)
(***************************************************************************)
\* Lengths no bound admits, one for each longer form of the prefix.
BigLens == {64, 16384, 1073741824}

\* Byte streams handed to decode: the encoding of a vector, alone, followed
\* by more data, or cut short; and prefixes announcing a huge length.
DecodeInputs ==
    {vec_encode(w) \o t : w \in Inputs, t \in {<<>>, <<5>>}}
    \cup {SubSeq(vec_encode(w), 1, Len(vec_encode(w)) - 1) : w \in Inputs}
    \cup {compact_encode(n) \o t : n \in BigLens, t \in {<<>>, <<1, 0>>}}

\* The call `op` with numeric arguments a and b, element e and sequence
\* argument items returned r, having reserved storage for `reserved` elements.
Call(op, a, b, e, items, reserved, r) ==
    /\ vec' = r.self
    /\ live' = r.live
    /\ last' = [op |-> op, old |-> vec, a |-> a, b |-> b, elem |-> e,
                items |-> items, ret |-> r.ret, out |-> r.out,
                reserved |-> reserved]
    /\ UNCHANGED S

Init ==
    /\ S \in 0..MaxBound
    /\ vec = <<>>
    /\ live = TRUE
    /\ last = [op |-> "new", old |-> <<>>, a |-> 0, b |-> 0, elem |-> 0,
               items |-> <<>>, ret |-> "Ok", out |-> <<>>, reserved |-> 0]

New == ~live /\ Call("new", 0, 0, 0, <<>>, 0, new)

Default == ~live /\ Call("default", 0, 0, 0, <<>>, 0, default)

WithBoundedCapacity ==
    /\ ~live
    /\ \E capacity \in Indices :
        Call("with_bounded_capacity", capacity, 0, 0, <<>>,
             with_bounded_capacity_reserved(capacity), with_bounded_capacity(capacity))

TruncateFrom == ~live /\ \E t \in Inputs : Call("truncate_from", 0, 0, 0, t, 0, truncate_from(t))

TryFrom == ~live /\ \E t \in Inputs : Call("try_from", 0, 0, 0, t, 0, try_from(t))

\* last.b is the number of elements taken from the iterator, which is also
\* what collect() allocates for.
TryCollect ==
    /\ ~live
    /\ \E t \in Inputs :
        Call("try_collect", 0, try_collect_taken(t), 0, t,
             try_collect_taken(t), try_collect(t))

SliceTryFrom ==
    /\ ~live
    /\ \E t \in Inputs : Call("slice_try_from", 0, 0, 0, t, 0, slice_try_from(t))

SliceTruncateFrom ==
    /\ ~live
    /\ \E t \in Inputs :
        Call("slice_truncate_from", 0, 0, 0, t, 0, slice_truncate_from(t))

\* What an array of the given elements reports as its size hint.
SizeHints(seq) == {None, Some(Len(seq))}

\* last.a tells whether the array reported a hint, last.b the hint.
Deserialize ==
    /\ ~live
    /\ \E seq \in Inputs : \E size_hint \in SizeHints(seq) :
        Call("deserialize", IF size_hint = None THEN 0 ELSE 1,
             unwrap_or(size_hint, 0), 0, seq,
             deserialize_reserved(seq, size_hint), deserialize(seq, size_hint))

Decode ==
    /\ ~live
    /\ \E input \in DecodeInputs :
        Call("decode", 0, 0, 0, input, decode_reserved(input), decode(input))

ForceInsertKeepRight ==
    /\ live
    /\ \E index \in Indices, element \in Elems :
        Call("force_insert_keep_right", index, 0, element, <<>>, 0,
             force_insert_keep_right(vec, index, element))

ForceInsertKeepLeft ==
    /\ live
    /\ \E index \in Indices, element \in Elems :
        Call("force_insert_keep_left", index, 0, element, <<>>, 0,
             force_insert_keep_left(vec, index, element))

Slide ==
    /\ live
    /\ \E index \in Indices, insert_position \in Indices :
        Call("slide", index, insert_position, 0, <<>>, 0,
             slide(vec, index, insert_position))

ForcePush ==
    /\ live
    /\ \E element \in Elems :
        Call("force_push", 0, 0, element, <<>>, 0, force_push(vec, element))

BoundedResize ==
    /\ live
    /\ \E size \in Indices, value \in Elems :
        Call("bounded_resize", size, 0, value, <<>>, 0, bounded_resize(vec, size, value))

TryExtend ==
    /\ live
    /\ \E with \in Items : Call("try_extend", 0, 0, 0, with, 0, try_extend(vec, with))

TryAppend ==
    /\ live
    /\ \E other \in Items : Call("try_append", 0, 0, 0, other, 0, try_append(vec, other))

TryMutate ==
    /\ live
    /\ \E mutated \in Inputs : Call("try_mutate", 0, 0, 0, mutated, 0, try_mutate(vec, mutated))

TryInsert ==
    /\ live
    /\ \E index \in Indices, element \in Elems :
        Call("try_insert", index, 0, element, <<>>, 0, try_insert(vec, index, element))

TryPush ==
    /\ live
    /\ \E element \in Elems :
        Call("try_push", 0, 0, element, <<>>, 0, try_push(vec, element))

TryRotateLeft ==
    /\ live
    /\ \E mid \in Indices : Call("try_rotate_left", mid, 0, 0, <<>>, 0, try_rotate_left(vec, mid))

TryRotateRight ==
    /\ live
    /\ \E mid \in Indices : Call("try_rotate_right", mid, 0, 0, <<>>, 0, try_rotate_right(vec, mid))

Clear == live /\ Call("clear", 0, 0, 0, <<>>, 0, clear(vec))

Remove ==
    /\ live
    /\ \E index \in Indices : Call("remove", index, 0, 0, <<>>, 0, remove(vec, index))

SwapRemove ==
    /\ live
    /\ \E index \in Indices : Call("swap_remove", index, 0, 0, <<>>, 0, swap_remove(vec, index))

Retain ==
    /\ live
    /\ \E keep \in SUBSET Elems :
        Call("retain", 0, 0, 0, KeepList(keep), 0, retain(vec, keep))

Truncate ==
    /\ live
    /\ \E len \in Indices : Call("truncate", len, 0, 0, <<>>, 0, truncate(vec, len))

Pop == live /\ Call("pop", 0, 0, 0, <<>>, 0, pop(vec))

Drain ==
    /\ live
    /\ \E start \in Indices, end \in Indices :
        Call("drain", start, end, 0, <<>>, 0, drain(vec, start, end))

Sort == live /\ Call("sort", 0, 0, 0, <<>>, 0, sort(vec))

SortBy == live /\ Call("sort_by", 0, 0, 0, <<>>, 0, sort_by(vec))

SortByKey == live /\ Call("sort_by_key", 0, 0, 0, <<>>, 0, sort_by_key(vec))

\* The pairs of kinds that are compared, self first.
Compared ==
    {<<"BoundedVec", "BoundedVec">>, <<"BoundedVec", "BoundedSlice">>,
     <<"BoundedSlice", "BoundedSlice">>, <<"BoundedVec", "Vec">>}

\* The bound types: the one of self, and another that resolves to the same
\* number.
Tags == {"BoundSelf", "BoundRhs"}

\* The caller's value as the left side of a comparison.
Lhs(kind) ==
    Tagged(IF kind = "BoundedSlice" THEN as_bounded_slice(vec).out ELSE vec, "BoundSelf")

\* The right sides of the given kind: bounded values hold at most S
\* elements, a Vec any number.
Rhs(kind) ==
    IF kind = "Vec" THEN {Tagged(t, "") : t \in Items}
    ELSE {Tagged(t, tag) : t \in {i \in Items : Len(i) <= S}, tag \in Tags}

\* self == rhs: items is the right side, out the kinds and the tag of rhs.
Eq ==
    /\ live
    /\ \E kinds \in Compared : \E rhs \in Rhs(kinds[2]) :
        Call("eq", 0, 0, 0, rhs.v, 0,
             R(vec, IF eq(Lhs(kinds[1]), rhs) THEN "true" ELSE "false",
               <<kinds[1], kinds[2], rhs.S>>))

\* self.partial_cmp(&other); there is none against a Vec.
PartialCmp ==
    /\ live
    /\ \E kinds \in Compared \ {<<"BoundedVec", "Vec">>} : \E other \in Rhs(kinds[2]) :
        Call("partial_cmp", 0, 0, 0, other.v, 0,
             R(vec, partial_cmp(Lhs(kinds[1]), other), <<kinds[1], kinds[2], other.S>>))

\* self.as_bounded_slice(): the payload is what the view shows.
AsBoundedSlice ==
    live /\ Call("as_bounded_slice", 0, 0, 0, <<>>, 0,
                 R(vec, "BoundedSlice", as_bounded_slice(vec).out))

IntoInner == live /\ Call("into_inner", 0, 0, 0, <<>>, 0, into_inner(vec))

\* self.encode(): the payload is the bytes produced; self is only read.
Encode == live /\ Call("encode", 0, 0, 0, <<>>, 0, R(vec, "bytes", bounded_vec_encode(vec)))

Next ==
    \/ New \/ Default \/ WithBoundedCapacity \/ TruncateFrom \/ TryFrom
    \/ TryCollect \/ Decode \/ SliceTryFrom \/ SliceTruncateFrom
    \/ Deserialize
    \/ ForceInsertKeepRight \/ ForceInsertKeepLeft \/ Slide \/ ForcePush
    \/ BoundedResize \/ TryExtend \/ TryAppend \/ TryMutate \/ TryInsert
    \/ TryPush \/ TryRotateLeft \/ TryRotateRight
    \/ Clear \/ Remove \/ SwapRemove \/ Retain \/ Truncate \/ Pop \/ Drain
    \/ Sort \/ SortBy \/ SortByKey \/ IntoInner \/ Encode
    \/ Eq \/ PartialCmp \/ AsBoundedSlice

Spec == Init /\ [][Next]_vars

(***************************************************************************)
(* Lengths at the edge of usize.  S::get() is a u32 and bound() casts it   *)
(* to usize, so where usize has 32 bits the bound can be usize::MAX.  The  *)
(* caller holds a BoundedVec it got from try_from and extends it with an   *)
(* iterator that reports a length close to usize::MAX.                     *)
(***************************************************************************)
\* Reported lengths whose sum with a stored length reaches or passes
\* usize::MAX.
HugeLens == {UsizeMax - MaxBound, UsizeMax - 1, UsizeMax}

WideInit ==
    /\ S \in (0..MaxBound) \cup {UsizeMax}
    /\ vec \in {t \in SeqsUpTo(MaxBound) : Len(t) <= S}
    /\ live = TRUE
    /\ last = [op |-> "try_from", old |-> <<>>, a |-> 0, b |-> 0, elem |-> 0,
               items |-> vec, ret |-> "Ok", out |-> <<>>, reserved |-> 0]

\* last.a is the length the iterator reports.
TryExtendSized ==
    /\ live
    /\ \E with_len \in HugeLens :
        Call("try_extend_sized", with_len, 0, 0, <<>>, 0, try_extend_sized(vec, with_len))

WideNext == TryExtendSized

SpecWide == WideInit /\ [][WideNext]_vars

(***************************************************************************)
(* Properties.                                                             *)
(***************************************************************************)
\* s without its k-th element (k counted from 1).
RemoveAt(s, k) == SubSeq(s, 1, k - 1) \o SubSeq(s, k + 1, Len(s))

\* The length prefix the last decode read, when it read one.
Prefix == compact_decode(last.items)

CheckedGrowth == {"try_push", "try_insert", "try_extend", "try_append"}

\* What the caller handed to the last checked growth call.
PassedIn == IF last.op \in {"try_push", "try_insert"} THEN <<last.elem>> ELSE last.items

\* C1: whatever the constructor and whatever the calls made since, the
\* BoundedVec the caller holds has at most S::get() elements.
C1_LengthWithinBound == live => Len(vec) <= S

\* A full vector on which force_push was just called.
C1_Witness ==
    /\ live /\ last.op = "force_push" /\ S >= 2
    /\ Len(last.old) = S /\ Len(vec) = S

\* C2: a decode whose length prefix announces more than S::get() elements
\* fails with "BoundedVec exceeds its limit" and leaves in the input
\* everything after the prefix.
C2_DecodeTooLongReadsOnlyPrefix ==
    (last.op = "decode" /\ Prefix.err = "" /\ Prefix.value > S) =>
        /\ ~live
        /\ last.ret = "BoundedVec exceeds its limit"
        /\ last.out = Skip(last.items, Len(compact_encode(Prefix.value)))

\* A refused decode with element bytes behind a one-byte prefix.
C2_Witness ==
    /\ last.op = "decode" /\ last.ret = "BoundedVec exceeds its limit"
    /\ S >= 1 /\ Prefix.value = S + 1 /\ Len(last.out) = 2 * (S + 1)

\* C3: a BoundedVec encodes to the bytes of the Vec of its elements, and
\* those bytes decode, as a BoundedVec and as a Vec, to the same elements
\* with nothing left over.
C3_EncodingAsVec ==
    /\ last.op = "encode" =>
        /\ last.out = vec_encode(last.old)
        /\ decode(last.out) = R(last.old, "Ok", <<>>)
        /\ vec_decode(last.out) = DecOk(last.old, <<>>)
    /\ last.op = "decode" =>
        \A w \in Inputs :
            (Len(w) <= S /\ last.items = vec_encode(w)) =>
                live /\ vec = w /\ last.ret = "Ok" /\ last.out = <<>>

\* The encoding of a vector that fills the bound, decoded.
C3_Witness ==
    /\ last.op = "decode" /\ live /\ S >= 2 /\ Len(vec) = S
    /\ last.items = bounded_vec_encode(vec) /\ 258 \in {vec[i] : i \in 1..Len(vec)}

\* C4 as stated: each checked growth call succeeds exactly when the new
\* length fits the bound, and a refused call changes nothing.
C4_SucceedsIffFits ==
    /\ last.op \in {"try_push", "try_insert"} =>
        ((last.ret = "Ok") <=> (Len(last.old) < S))
    /\ last.op \in {"try_extend", "try_append"} =>
        ((last.ret = "Ok") <=> (Len(last.old) + Len(last.items) <= S))
    /\ (last.op \in CheckedGrowth /\ last.ret = "Err") => vec = last.old

\* C4 amended: try_insert succeeds exactly when the new length fits the
\* bound and index <= len (with room left and index > len it panics); the
\* other three succeed exactly when the new length fits; a refused call
\* changes nothing.
C4_SucceedsIffFitsAndInRange ==
    /\ last.op = "try_push" => ((last.ret = "Ok") <=> (Len(last.old) < S))
    /\ last.op = "try_insert" =>
        ((last.ret = "Ok") <=> (Len(last.old) < S /\ last.a <= Len(last.old)))
    /\ last.op \in {"try_extend", "try_append"} =>
        ((last.ret = "Ok") <=> (Len(last.old) + Len(last.items) <= S))
    /\ (last.op \in CheckedGrowth /\ last.ret = "Err") => vec = last.old

\* try_extend refused for one element too many, the vector untouched.
C4_Witness ==
    /\ last.op = "try_extend" /\ last.ret = "Err" /\ live
    /\ Len(last.old) + Len(last.items) = S + 1 /\ Len(last.old) > 0
    /\ vec = last.old

C6_InsertOutOfRangePanics ==
    (last.op = "try_insert" /\ last.a > Len(last.old)) => last.ret = "Panic"

\* C7: force_push does nothing when the bound is 0; otherwise it leaves
\* min(bound, len + 1) elements, the pushed one last, the first
\* min(len, bound - 1) old ones in place.
C7_ForcePush ==
    last.op = "force_push" =>
        IF S = 0 THEN vec = last.old
        ELSE LET kept == Min(Len(last.old), S - 1) IN
             /\ Len(vec) = Min(S, Len(last.old) + 1)
             /\ vec[Len(vec)] = last.elem
             /\ SubSeq(vec, 1, kept) = SubSeq(last.old, 1, kept)
             /\ Len(vec) = kept + 1

\* force_push on a full vector whose last element differs from the pushed one.
C7_Witness ==
    /\ last.op = "force_push" /\ S >= 2 /\ Len(last.old) = S
    /\ last.old[S] # last.elem /\ vec[S] = last.elem

ForceInserts == {"force_insert_keep_right", "force_insert_keep_left"}

Inserted == last.ret \in {"OkNone", "OkSome"}

\* C8: a force_insert that succeeds on a full vector evicts exactly one old
\* element, returns it, keeps the length and the order of the others; one
\* that succeeds on a vector with room returns None and evicts nothing.
C8_ForceInsertEvictsOne ==
    (last.op \in ForceInserts /\ Inserted) =>
        IF Len(last.old) = S
        THEN /\ last.ret = "OkSome"
             /\ Len(vec) = S
             /\ Len(last.out) = 1
             /\ \E k \in 1..Len(last.old), j \in 1..Len(vec) :
                    /\ last.out[1] = last.old[k]
                    /\ vec[j] = last.elem
                    /\ RemoveAt(vec, j) = RemoveAt(last.old, k)
        ELSE /\ last.ret = "OkNone"
             /\ last.out = <<>>
             /\ \E j \in 1..Len(vec) :
                    vec[j] = last.elem /\ RemoveAt(vec, j) = last.old

\* force_insert_keep_left on a full vector, evicting an element that differs
\* from the one inserted.
C8_Witness ==
    /\ last.op = "force_insert_keep_left" /\ last.ret = "OkSome"
    /\ Len(last.old) = S /\ S >= 2 /\ last.out # <<last.elem>>

\* C9 as stated: on a full vector force_insert_keep_right evicts the element
\* at position 0 and leaves the new element at position index.
C9_KeepRightElementAtIndex ==
    (last.op = "force_insert_keep_right" /\ Inserted /\ Len(last.old) = S) =>
        /\ last.out = <<last.old[1]>>
        /\ last.a + 1 <= Len(vec)
        /\ vec[last.a + 1] = last.elem

\* C9 amended: on a full vector force_insert_keep_right evicts the element
\* at position 0 and leaves the new element at position index - 1.
C9_KeepRightElementBeforeIndex ==
    (last.op = "force_insert_keep_right" /\ Inserted /\ Len(last.old) = S) =>
        /\ last.out = <<last.old[1]>>
        /\ last.a >= 1
        /\ vec[last.a] = last.elem

\* force_insert_keep_right in the middle of a full vector.
C9_Witness ==
    /\ last.op = "force_insert_keep_right" /\ last.ret = "OkSome"
    /\ Len(last.old) = S /\ S >= 3 /\ last.a = 2
    /\ last.elem # last.old[3] /\ last.elem # last.old[1]

\* C10: force_insert_keep_right never evicts an element at a position >=
\* index; on a full vector those elements stay where they were (with room
\* they all stay, one place to the right).
C10_KeepRightFrame ==
    (last.op = "force_insert_keep_right" /\ Inserted) =>
        /\ Len(last.old) = S <=> last.ret = "OkSome"
        /\ last.ret = "OkSome" =>
            /\ last.a >= 1
            /\ last.out = <<last.old[1]>>
            /\ Len(vec) = Len(last.old)
            /\ \A p \in last.a..(Len(last.old) - 1) : vec[p + 1] = last.old[p + 1]
        /\ last.ret = "OkNone" =>
            /\ last.out = <<>>
            /\ Len(vec) = Len(last.old) + 1
            /\ \A p \in last.a..(Len(last.old) - 1) : vec[p + 2] = last.old[p + 1]

\* force_insert_keep_right at position 1 of a full vector with differing
\* elements behind it.
C10_Witness ==
    /\ last.op = "force_insert_keep_right" /\ last.ret = "OkSome"
    /\ S >= 3 /\ last.a = 1 /\ last.old[2] # last.old[3]
    /\ vec[2] = last.old[2] /\ vec[3] = last.old[3]

KeepLeftInserted == last.op = "force_insert_keep_left" /\ Inserted

KeepRightRefuses ==
    \/ last.a > S
    \/ last.a > Len(last.old)
    \/ (last.a = 0 /\ Len(last.old) = S)

\* C13: force_insert_keep_right returns Err(element) and changes nothing
\* exactly when index > bound, index > len, or index = 0 on a full vector;
\* otherwise it inserts.
C13_KeepRightRefusal ==
    last.op = "force_insert_keep_right" =>
        /\ (last.ret = "Err") <=> KeepRightRefuses
        /\ KeepRightRefuses => (vec = last.old /\ last.out = <<last.elem>>)
        /\ ~KeepRightRefuses =>
            (Inserted /\ \E j \in 1..Len(vec) : vec[j] = last.elem)

\* force_insert_keep_right refused at index 0 of a full, non-empty vector.
C13_Witness ==
    /\ last.op = "force_insert_keep_right" /\ last.ret = "Err"
    /\ last.a = 0 /\ S >= 2 /\ Len(last.old) = S /\ vec = last.old

\* The cases in which force_insert_keep_left is said to refuse.
KeepLeftRefuses ==
    \/ last.a > S
    \/ last.a > Len(last.old)
    \/ S = 0
    \/ (last.a = S /\ Len(last.old) = S)

\* C14: force_insert_keep_left returns Err(element) and changes nothing
\* exactly when index > bound, index > len, bound = 0, or index = bound on a
\* full vector; otherwise it inserts.
C14_KeepLeftRefusal ==
    last.op = "force_insert_keep_left" =>
        /\ (last.ret = "Err") <=> KeepLeftRefuses
        /\ KeepLeftRefuses => (vec = last.old /\ last.out = <<last.elem>>)
        /\ ~KeepLeftRefuses =>
            (Inserted /\ vec[last.a + 1] = last.elem)

\* force_insert_keep_left refused at index = bound of a full vector.
C14_Witness ==
    /\ last.op = "force_insert_keep_left" /\ last.ret = "Err"
    /\ S >= 2 /\ last.a = S /\ Len(last.old) = S /\ vec = last.old

Slid == last.op = "slide" /\ last.ret = "true"

\* C15: a slide that returns true keeps the length, puts the element that
\* was at index right before the one that was at insert_position (last when
\* insert_position = len), keeps the order of the others, and touches only
\* the positions between the two, which it rotates by one.
C15_SlideMoves ==
    Slid =>
        LET i == last.a
            j == last.b
            moved == last.old[i + 1]
            rest == RemoveAt(last.old, i + 1)
            at == IF j < i THEN j ELSE j - 1
            lo == IF j < i THEN j ELSE i
            hi == IF j < i THEN i + 1 ELSE j
            sub == SubSeq(last.old, lo + 1, hi)
        IN  /\ Len(vec) = Len(last.old)
            /\ vec[at + 1] = moved
            /\ IF j = Len(last.old) THEN at + 1 = Len(vec)
               ELSE vec[at + 2] = last.old[j + 1]
            /\ RemoveAt(vec, at + 1) = rest
            /\ \A p \in 0..(Len(vec) - 1) :
                   (p < lo \/ p >= hi) => vec[p + 1] = last.old[p + 1]
            /\ SubSeq(vec, lo + 1, hi) =
                   IF j < i
                   THEN <<sub[Len(sub)]>> \o SubSeq(sub, 1, Len(sub) - 1)
                   ELSE SubSeq(sub, 2, Len(sub)) \o <<sub[1]>>

\* An element moved forward over two differing others, short of the end.
C15_Witness ==
    /\ Slid /\ S >= 3 /\ last.a = 0 /\ last.b = 2 /\ Len(last.old) = 3
    /\ last.old[1] # last.old[2] /\ vec # last.old

\* The cases in which slide is said to do nothing.
SlideNoop ==
    \/ last.a >= Len(last.old)
    \/ last.b > Len(last.old)
    \/ last.a = last.b
    \/ last.a + 1 = last.b

\* C16: slide returns false and changes nothing exactly when index >= len,
\* insert_position > len, index = insert_position or index + 1 =
\* insert_position; for every other pair it returns true.
C16_SlideNoops ==
    last.op = "slide" =>
        /\ (last.ret = "false") <=> SlideNoop
        /\ SlideNoop => vec = last.old
        /\ ~SlideNoop => last.ret = "true"

\* slide(index, index + 1) on a vector that holds both positions.
C16_Witness ==
    /\ last.op = "slide" /\ last.ret = "false" /\ last.a < Len(last.old) - 1
    /\ last.b = last.a + 1 /\ vec = last.old

\* The next call is the slide that undoes the last one: slide(j - 1, i)
\* after moving forward (j > i + 1), slide(j, i + 1) after moving backward.
SlidesBack ==
    /\ last'.op = "slide"
    /\ IF last.b > last.a + 1
       THEN last'.a = last.b - 1 /\ last'.b = last.a
       ELSE last'.a = last.b /\ last'.b = last.a + 1

\* C17: after a slide(i, j) that returned true, the complementary slide
\* returns true and leaves the vector as it was before the first.
C17_SlideRoundTrip ==
    [][(Slid /\ SlidesBack) => (last'.ret = "true" /\ vec' = last.old)]_vars

\* An element moved backward over two differing others, so that sliding it
\* back has something to restore.
C17_Witness ==
    /\ Slid /\ S >= 3 /\ last.a = 2 /\ last.b = 0
    /\ last.old[1] # last.old[3] /\ vec # last.old
    /\ ENABLED (Slide /\ SlidesBack)

\* C18: try_mutate returns Some, holding the storage as the closure left it,
\* exactly when that storage has at most bound elements, and None otherwise:
\* no BoundedVec longer than the bound comes back.
C18_TryMutate ==
    last.op = "try_mutate" =>
        /\ (last.ret = "Some") <=> (Len(last.items) <= S)
        /\ last.ret = "Some" => (live /\ vec = last.items)
        /\ last.ret # "Some" => (last.ret = "None" /\ ~live)
        /\ live => Len(vec) <= S

\* A closure that pushed one element onto a full vector: None.
C18_Witness ==
    /\ last.op = "try_mutate" /\ last.ret = "None" /\ ~live /\ S >= 2
    /\ Len(last.old) = S /\ Len(last.items) = S + 1
    /\ SubSeq(last.items, 1, S) = last.old

\* C19: try_from, of a Vec into a BoundedVec and of a slice into a
\* BoundedSlice, succeeds exactly when the input has at most bound elements;
\* the result then holds the input's elements in order, and otherwise the
\* error is the input itself.
C19_TryFrom ==
    /\ last.op = "try_from" =>
        /\ (last.ret = "Ok") <=> (Len(last.items) <= S)
        /\ last.ret = "Ok" => (live /\ vec = last.items)
        /\ last.ret # "Ok" => (last.ret = "Err" /\ ~live /\ last.out = last.items)
    /\ last.op = "slice_try_from" =>
        /\ (last.ret = "Ok") <=> (Len(last.items) <= S)
        /\ last.ret \in {"Ok", "Err"}
        /\ last.out = last.items

\* A slice one element too long, handed back whole.
C19_Witness ==
    /\ last.op = "slice_try_from" /\ last.ret = "Err" /\ S >= 2
    /\ Len(last.items) = S + 1 /\ last.out = last.items
    /\ last.items[1] # last.items[S + 1]

\* C20: truncate_from always succeeds and holds the first min(len, bound)
\* elements of its input, for a Vec into a BoundedVec and for a slice into
\* a BoundedSlice.
C20_TruncateFrom ==
    LET n == Min(Len(last.items), S) IN
    /\ last.op = "truncate_from" =>
        (live /\ last.ret = "Ok" /\ Len(vec) = n /\ vec = SubSeq(last.items, 1, n))
    /\ last.op = "slice_truncate_from" =>
        (last.ret = "Ok" /\ Len(last.out) = n
         /\ \A p \in 1..n : last.out[p] = last.items[p])

\* A Vec one element too long, its last element dropped.
C20_Witness ==
    /\ last.op = "truncate_from" /\ live /\ S >= 2
    /\ Len(last.items) = S + 1 /\ Len(vec) = S
    /\ last.items[S] # last.items[S + 1]

\* C21: deserializing an array of more than bound elements fails with
\* "out of bounds", with or without a size hint, and never gives a
\* truncated container; an array of at most bound elements deserializes to
\* exactly its elements in order.
C21_Deserialize ==
    last.op = "deserialize" =>
        /\ Len(last.items) > S => (last.ret = "out of bounds" /\ ~live)
        /\ Len(last.items) <= S => (last.ret = "Ok" /\ live /\ vec = last.items)

\* An array one element too long that reports no hint: refused in the loop.
C21_Witness ==
    /\ last.op = "deserialize" /\ last.a = 0 /\ S >= 2
    /\ Len(last.items) = S + 1 /\ last.ret = "out of bounds" /\ ~live

\* C22: try_collect succeeds exactly when the iterator's reported length is
\* at most the bound, and then holds the iterator's elements in order; when
\* the length exceeds the bound it fails having taken no element from the
\* iterator.
C22_TryCollect ==
    last.op = "try_collect" =>
        /\ (last.ret = "Ok") <=> (Len(last.items) <= S)
        /\ last.ret = "Ok" => (live /\ vec = last.items /\ last.b = Len(last.items))
        /\ last.ret # "Ok" =>
            (last.ret = "iterator length too big" /\ ~live /\ last.b = 0)

\* An iterator one element too long, refused untouched.
C22_Witness ==
    /\ last.op = "try_collect" /\ last.ret = "iterator length too big"
    /\ S >= 2 /\ Len(last.items) = S + 1 /\ last.b = 0 /\ ~live

\* C23: bounded_resize(size, value) leaves exactly min(size, bound)
\* elements: the first min(old length, min(size, bound)) are the old ones,
\* and every position added beyond the old length holds value.
C23_BoundedResize ==
    last.op = "bounded_resize" =>
        LET n == Min(last.a, S)
            kept == Min(Len(last.old), n)
        IN  /\ live /\ Len(vec) = n
            /\ \A p \in 1..kept : vec[p] = last.old[p]
            /\ \A p \in (Len(last.old) + 1)..n : vec[p] = last.elem

\* A resize to usize::MAX that grows a one-element vector to the bound.
C23_Witness ==
    /\ last.op = "bounded_resize" /\ last.a = UsizeMax /\ S >= 3
    /\ Len(last.old) = 1 /\ Len(vec) = S /\ last.elem # last.old[1]

\* The last call was a rotation that was carried out.
Rotated == last.op \in {"try_rotate_left", "try_rotate_right"} /\ last.ret = "Ok"

\* The next call rotates left by what is left of a full turn.
RotatesRest ==
    /\ last'.op = "try_rotate_left"
    /\ last'.a = Len(last.old) - last.a

\* C24: try_rotate_left(mid) and try_rotate_right(mid) return Err and leave
\* the vector unchanged exactly when mid > len; otherwise they return Ok,
\* keep the length, and the element at position i moves mid positions
\* towards the front (left) or the back (right), wrapping around; so a
\* rotation by 0 or by len changes nothing, and a left rotation by k
\* followed by one by len - k restores the vector.
C24_Rotate ==
    /\ [](last.op \in {"try_rotate_left", "try_rotate_right"} =>
            LET len == Len(last.old) IN
            /\ live
            /\ (last.ret = "Err") <=> (last.a > len)
            /\ last.ret \in {"Ok", "Err"}
            /\ last.ret = "Err" => vec = last.old
            /\ last.ret = "Ok" =>
                /\ Len(vec) = len
                /\ last.op = "try_rotate_left" =>
                    \A p \in 1..len : vec[p] = last.old[((p - 1 + last.a) % len) + 1]
                /\ last.op = "try_rotate_right" =>
                    \A p \in 1..len : vec[((p - 1 + last.a) % len) + 1] = last.old[p]
                /\ last.a \in {0, len} => vec = last.old)
    /\ [][(last.op = "try_rotate_left" /\ last.ret = "Ok" /\ RotatesRest)
            => (last'.ret = "Ok" /\ vec' = last.old)]_vars

\* A left rotation by one of three elements that are not all equal, with
\* the rotation that completes the turn still to come.
C24_Witness ==
    /\ last.op = "try_rotate_left" /\ last.ret = "Ok" /\ last.a = 1
    /\ Len(last.old) = 3 /\ vec # last.old /\ last.old[2] = last.old[3]
    /\ ENABLED (TryRotateLeft /\ RotatesRest)

\* a can be obtained from b by deleting elements of b.
RECURSIVE IsSubsequence(_, _)
IsSubsequence(a, b) ==
    IF a = <<>> THEN TRUE
    ELSE IF b = <<>> THEN FALSE
    ELSE IF Head(a) = Head(b) THEN IsSubsequence(Tail(a), Tail(b))
    ELSE IsSubsequence(a, Tail(b))

\* s without the positions in D.
Without(s, D) ==
    LET idx == SelectSeq([i \in 1..Len(s) |-> i], LAMBDA i : i \notin D)
    IN  [j \in 1..Len(idx) |-> s[idx[j]]]

\* How many elements the last call put into the vector.
Added ==
    IF last.op \in {"try_push", "try_insert"} /\ last.ret = "Ok" THEN 1
    ELSE IF last.op \in {"try_extend", "try_append"} /\ last.ret = "Ok"
    THEN Len(last.items)
    ELSE IF last.op = "force_push" /\ S > 0 THEN 1
    ELSE IF last.op = "bounded_resize" /\ Min(last.a, S) > Len(last.old)
    THEN Min(last.a, S) - Len(last.old)
    ELSE 0

\* The old elements still in the vector are in the order they had: taking
\* the added elements out of vec leaves old with some elements deleted.
OrderKept ==
    \E D \in SUBSET (1..Len(vec)) :
        /\ Cardinality(D) = Added
        /\ IsSubsequence(Without(vec, D), last.old)

OrderKeeping ==
    {"try_push", "try_insert", "try_extend", "try_append", "force_push",
     "bounded_resize", "truncate", "pop", "remove", "retain", "drain"}

\* C25 as claimed: try_push, try_insert, try_extend, try_append,
\* try_rotate_left, try_rotate_right, force_push, bounded_resize, truncate,
\* pop, remove, swap_remove, retain and drain keep the retained elements in
\* their relative order.
C25_OrderKeptByAll ==
    last.op \in OrderKeeping \cup {"try_rotate_left", "try_rotate_right", "swap_remove"}
        => OrderKept

\* C25, amended: try_push, try_insert, try_extend, try_append, force_push,
\* bounded_resize, truncate, pop, remove, retain and drain keep the
\* retained elements in their relative order (try_rotate_left,
\* try_rotate_right and swap_remove do not).
C25_OrderKept == last.op \in OrderKeeping => OrderKept

\* A remove from the middle of three elements whose ends differ.
C25_Witness ==
    /\ last.op = "remove" /\ last.ret = "value" /\ last.a = 1
    /\ Len(last.old) = 3 /\ last.old[1] # last.old[3]
    /\ vec = <<last.old[1], last.old[3]>>

\* a comes before b in the lexicographic order.
LexLess(a, b) ==
    \E k \in 0..Min(Len(a), Len(b)) :
        /\ SubSeq(a, 1, k) = SubSeq(b, 1, k)
        /\ k < Len(b)
        /\ (k < Len(a) => a[k + 1] < b[k + 1])

\* C26: equality and ordering of bounded values (BoundedVec with
\* BoundedVec, with BoundedSlice and with Vec, BoundedSlice with
\* BoundedSlice) are those of the two element sequences, lexicographic for
\* the ordering, whatever the bound types: values of different bound types
\* with the same elements are equal.
C26_Comparisons ==
    /\ last.op = "eq" =>
        ((last.ret = "true") <=> (vec = last.items)) /\ last.ret \in {"true", "false"}
    /\ last.op = "partial_cmp" =>
        /\ (last.ret = "Equal") <=> (vec = last.items)
        /\ (last.ret = "Less") <=> LexLess(vec, last.items)
        /\ (last.ret = "Greater") <=> LexLess(last.items, vec)

\* Two values of different bound types with the same two elements.
C26_Witness ==
    /\ last.op = "eq" /\ last.out = <<"BoundedVec", "BoundedVec", "BoundRhs">>
    /\ Len(vec) = 2 /\ vec = last.items /\ last.ret = "true"

\* C27: no call reserves storage for more elements than the bound because
\* a caller or an input said so: with_bounded_capacity(n) reserves
\* min(n, bound), the serde visitor reserves its size hint only when the
\* hint is at most the bound, and decode hands a length to the element
\* loop only when that length is at most the bound.
C27_ReservedWithinBound ==
    /\ last.reserved <= S
    /\ last.op = "with_bounded_capacity" => last.reserved = Min(last.a, S)
    /\ last.op = "deserialize" =>
        last.reserved = (IF last.a = 1 /\ last.b <= S THEN last.b ELSE 0)
    /\ last.op = "decode" =>
        last.reserved = (IF Prefix.err = "" /\ Prefix.value <= S THEN Prefix.value ELSE 0)

\* An array that announces one element more than the bound: nothing is
\* reserved for it.
C27_Witness ==
    /\ last.op = "deserialize" /\ last.a = 1 /\ last.b = S + 1 /\ S >= 2
    /\ last.reserved = 0 /\ last.ret = "out of bounds"

\* C28: every BoundedSlice obtained, by try_from or truncate_from on a
\* slice or by as_bounded_slice on a BoundedVec reached through any calls,
\* has at most Bound::get() elements and shows exactly the elements of its
\* source (the first min(len, bound) of them for truncate_from).
C28_BoundedSliceWithinBound ==
    /\ (last.op = "slice_try_from" /\ last.ret = "Ok") =>
        (Len(last.out) <= S /\ last.out = last.items)
    /\ last.op = "slice_truncate_from" =>
        /\ last.ret = "Ok" /\ Len(last.out) <= S
        /\ last.out = SubSeq(last.items, 1, Min(Len(last.items), S))
    /\ last.op = "as_bounded_slice" =>
        (last.ret = "BoundedSlice" /\ Len(last.out) <= S /\ last.out = vec
         /\ vec = last.old)

\* A view of a full vector of at least two elements.
C28_Witness ==
    /\ last.op = "as_bounded_slice" /\ S >= 2 /\ Len(vec) = S
    /\ last.out = vec /\ vec[1] # vec[S]

\* C29: a checked growth call that succeeds does what the unbounded one
\* does: try_push puts element last, try_insert(index, element) puts it at
\* position index and moves the elements from index on one to the right,
\* try_extend appends the items in order, try_append appends the elements
\* of other in order and leaves other empty; the elements stored before
\* keep their order.
C29_SuccessfulGrowth ==
    (last.op \in CheckedGrowth /\ last.ret = "Ok") =>
        LET len == Len(last.old) IN
        /\ live
        /\ last.op = "try_push" => vec = Append(last.old, last.elem)
        /\ last.op = "try_insert" =>
            /\ last.a <= len /\ Len(vec) = len + 1
            /\ vec[last.a + 1] = last.elem
            /\ \A p \in 1..last.a : vec[p] = last.old[p]
            /\ \A p \in (last.a + 1)..len : vec[p + 1] = last.old[p]
        /\ last.op = "try_extend" => vec = last.old \o last.items
        /\ last.op = "try_append" => (vec = last.old \o last.items /\ last.out = <<>>)
        /\ OrderKept

\* An insert between two stored elements that both differ from it.
C29_Witness ==
    /\ last.op = "try_insert" /\ last.ret = "Ok" /\ last.a = 1
    /\ Len(last.old) = 2 /\ last.old[1] # last.elem
    /\ vec = <<last.old[1], last.elem, last.old[2]>>

Forcing == {"force_insert_keep_right", "force_insert_keep_left", "slide"}

\* C30: whatever index and insert_position are (beyond the length, beyond
\* the bound, usize::MAX), force_insert_keep_right, force_insert_keep_left
\* and slide finish without an out-of-range element or sub-range access,
\* without an out-of-range insert and without overflow of index + 1.
C30_NoPanicNoOverflow ==
    last.op \in Forcing =>
        /\ last.ret \notin {"Panic", "Overflow"}
        /\ live /\ Len(last.old) <= S

\* slide asked to move the element at usize::MAX of a vector of two.
C30_Witness ==
    /\ last.op = "slide" /\ last.a = UsizeMax /\ last.b = Len(last.old)
    /\ Len(last.old) >= 2 /\ last.ret = "false" /\ vec = last.old

\* The arguments of the last slide passed its two early returns.
PassedGuards ==
    /\ last.op = "slide"
    /\ ~(Len(last.old) <= last.a \/ Len(last.old) < last.b \/ last.a = UsizeMax)
    /\ ~(last.a = last.b \/ last.a + 1 = last.b)

\* C31: the debug_assert!(false, ...) that ends slide is never reached:
\* whenever index and insert_position pass the two early returns, exactly
\* one of insert_position < index and index + 1 < insert_position holds and
\* that rotation is carried out.
C31_DebugAssertUnreachable ==
    /\ last.op = "slide" => last.ret \in {"true", "false"}
    /\ PassedGuards =>
        /\ last.ret = "true"
        /\ (last.b < last.a) # (last.a + 1 < last.b)

\* The shortest forward move: the first element to just before the third
\* position.
C31_Witness ==
    /\ PassedGuards /\ last.a = 0 /\ last.b = 2 /\ last.ret = "true"
    /\ last.old[1] # last.old[2] /\ vec[2] = last.old[1]

\* C32: when the length of what try_extend or try_append is given plus the
\* length stored exceeds usize::MAX, the saturated sum makes the call
\* return Err with the vector unchanged.
C32_OverflowingSumRejected ==
    (last.op = "try_extend_sized" /\ last.a > UsizeMax - Len(last.old)) =>
        (last.ret = "Err" /\ vec = last.old)

====
